---- MODULE Spec2Model ----
(***************************************************************************)
(* Model of the UAsmsDashboard release manager (UpdateManager, Login, App). *)
(*                                                                          *)
(* Two builds of UpdateManager exist in the repository: the binary build    *)
(* (file upload to the blob store, then a Firestore document) and the link  *)
(* build (an operator supplied download URL, then a Firestore document).    *)
(* Strings are sequences of characters so that trim, parseInt and the       *)
(* numeric coercions of JavaScript are computed, not assumed.               *)
(***************************************************************************)
EXTENDS Integers, Sequences, FiniteSets, TLC

(***************************************************************************)
(* Bounds of the model.                                                     *)
(***************************************************************************)
\* Number of admission attempts that may pass validation in one behaviour.
MaxAttempts == 2

Clients == {"c1", "c2"}
Attempts == 1..MaxAttempts

(***************************************************************************)
(* JavaScript string and number helpers.                                    *)
(***************************************************************************)
Digits == {"0", "1", "2", "3", "4", "5", "6", "7", "8", "9"}

DigitVal(ch) ==
    CASE ch = "0" -> 0 [] ch = "1" -> 1 [] ch = "2" -> 2 [] ch = "3" -> 3
      [] ch = "4" -> 4 [] ch = "5" -> 5 [] ch = "6" -> 6 [] ch = "7" -> 7
      [] ch = "8" -> 8 [] ch = "9" -> 9

IsWhite(ch) == ch = " "

\* parseInt of a string with no leading digit, and the result of a failed
\* numeric coercion.  It orders below every number, as Firestore orders NaN.
NaN == -1000000000

RECURSIVE trimStart(_)
trimStart(s) ==
    IF s # <<>> /\ IsWhite(Head(s)) THEN trimStart(Tail(s)) ELSE s

RECURSIVE trimEnd(_)
trimEnd(s) ==
    IF s # <<>> /\ IsWhite(s[Len(s)]) THEN trimEnd(SubSeq(s, 1, Len(s) - 1)) ELSE s

\* String.prototype.trim
trim(s) == trimEnd(trimStart(s))

\* The longest prefix of s made of decimal digits.
RECURSIVE DigitPrefix(_)
DigitPrefix(s) ==
    IF s # <<>> /\ Head(s) \in Digits
    THEN <<Head(s)>> \o DigitPrefix(Tail(s))
    ELSE <<>>

RECURSIVE DigitsValue(_)
DigitsValue(d) ==
    IF d = <<>> THEN 0 ELSE 10 * DigitsValue(SubSeq(d, 1, Len(d) - 1)) + DigitVal(d[Len(d)])

\* parseInt(string): leading white space is skipped, an optional sign is
\* read, then the longest run of digits; anything after it is ignored.
parseInt(s) ==
    LET t    == trimStart(s)
        neg  == t # <<>> /\ Head(t) = "-"
        body == IF t # <<>> /\ Head(t) \in {"-", "+"} THEN Tail(t) ELSE t
        d    == DigitPrefix(body)
    IN  IF d = <<>> THEN NaN
        ELSE IF neg THEN 0 - DigitsValue(d) ELSE DigitsValue(d)

\* The decimal literal [sign] digits [. digits] split into its parts; ok is
\* FALSE when the text is no such literal.
DecimalParts(s) ==
    LET t    == trim(s)
        neg  == t # <<>> /\ Head(t) = "-"
        body == IF t # <<>> /\ Head(t) \in {"-", "+"} THEN Tail(t) ELSE t
        ip   == DigitPrefix(body)
        rest == SubSeq(body, Len(ip) + 1, Len(body))
        fp   == IF rest # <<>> /\ Head(rest) = "." THEN DigitPrefix(Tail(rest)) ELSE <<>>
        used == Len(ip) + (IF rest # <<>> /\ Head(rest) = "." THEN 1 + Len(fp) ELSE 0)
    IN  [ok   |-> used = Len(body) /\ Len(ip) + Len(fp) > 0,
         neg  |-> neg,
         num  |-> DigitsValue(ip \o fp),
         frac |-> Len(fp)]

\* The sign of ToNumber(string) as -1, 0 or 1, or NaN: what the comparison
\* of a string with the number 0 depends on.  The empty string converts to 0.
NumberSign(s) ==
    LET p == DecimalParts(s)
    IN  IF trim(s) = <<>> THEN 0
        ELSE IF ~p.ok THEN NaN
        ELSE IF p.num = 0 THEN 0
        ELSE IF p.neg THEN -1 ELSE 1

\* string <= 0 after coercion; every comparison with NaN is false.
LessOrEqualZero(s) == NumberSign(s) # NaN /\ NumberSign(s) <= 0

RECURSIVE Pow10(_)
Pow10(n) == IF n = 0 THEN 1 ELSE 10 * Pow10(n - 1)

\* parseFloat(fileSize) * 1024 * 1024, the link build's size in bytes.
fileSizeInBytes(s) ==
    LET p == DecimalParts(s)
    IN  IF ~p.ok THEN NaN
        ELSE (IF p.neg THEN -1 ELSE 1) * ((p.num * 1024 * 1024) \div Pow10(p.frac))

\* new URL(text) succeeds: after stripping white space the text starts with
\* a scheme, a letter followed by scheme characters and a colon.
Letters == {"a", "b", "h", "p", "k", "s", "t", "x"}

RECURSIVE SchemeRest(_)
SchemeRest(s) ==
    IF s = <<>> THEN FALSE
    ELSE IF Head(s) = ":" THEN TRUE
    ELSE IF Head(s) \in Letters \cup Digits \cup {"+", "-", "."} THEN SchemeRest(Tail(s))
    ELSE FALSE

IsAbsoluteURL(s) ==
    LET t == trim(s)
    IN  t # <<>> /\ Head(t) \in Letters /\ SchemeRest(Tail(t))

\* String.prototype.endsWith
endsWith(s, suffix) ==
    Len(s) >= Len(suffix) /\ SubSeq(s, Len(s) - Len(suffix) + 1, Len(s)) = suffix


(***************************************************************************)
(* Values the operators type or pick.                                      *)
(***************************************************************************)
ApkName == <<"a", ".", "a", "p", "k">>
TxtName == <<"a", ".", "t", "x", "t">>

\* The ceiling of handleFileSelect, 100 * 1024 * 1024 bytes.
MaxFileBytes == 100 * 1024 * 1024

\* Files offered to the file input: name, size in bytes, and the content.
GoodFiles ==
    { [name |-> ApkName, size |-> 4,            content |-> "f1"],
      [name |-> ApkName, size |-> MaxFileBytes, content |-> "f2"] }
\* The build each operator has at hand.
FileOf(c) == CHOOSE f \in GoodFiles : f.content = (IF c = "c1" THEN "f1" ELSE "f2")
BadFiles ==
    { [name |-> ApkName, size |-> MaxFileBytes + 1, content |-> "f3"],
      [name |-> TxtName, size |-> 4,                content |-> "f4"] }

\* A draft is what the form fields hold when the operator clicks submit.
\* The binary build has no downloadUrl and fileSize fields: they stay empty.
Draft(m, name, code, critical) ==
    [versionName |-> name, versionCode |-> code, changelog |-> <<"x", " ">>,
     isCritical |-> critical,
     downloadUrl |-> IF m = "link" THEN <<"h", ":", "a">> ELSE <<>>,
     fileSize    |-> IF m = "link" THEN <<"1">> ELSE <<>>]

\* The drafts submitted: two that differ in every free field but share the
\* code text, one with the same code written differently, and one with another
\* code.
DraftsOf(m) ==
    { Draft(m, <<"a">>, <<"1">>, TRUE),
      Draft(m, <<"b">>, <<"1">>, FALSE),
      Draft(m, <<"a">>, <<"0", "1">>, FALSE),
      Draft(m, <<"a">>, <<"2">>, TRUE) }

EmptyDraft ==
    [versionName |-> <<>>, versionCode |-> <<>>, changelog |-> <<>>,
     isCritical |-> FALSE, downloadUrl |-> <<>>, fileSize |-> <<>>]

\* selectedFile is a sequence: empty for null, else the one File.
NoFile == <<>>

(***************************************************************************)
(* State.                                                                   *)
(***************************************************************************)
VARIABLES
    mode,            \* "binary" or "link": the build of UpdateManager deployed
    catalog,         \* Firestore collection app_versions: document id -> data
    blobs,           \* the storage bucket: object path -> content
    now,             \* the clock read by new Date()
    mounted,         \* per client: an UpdateManager instance is mounted
    versions,        \* per client: the versions state, the last snapshot delivered
    uploading,       \* per client: the uploading state
    uploadProgress,  \* per client: the uploadProgress state
    selectedFile,    \* per client: the selectedFile state
    errors,          \* per client: the errors state, field -> message
    att,             \* the admission attempts that passed validation
    created,         \* history: document id -> the data of its first create
    lastOp,          \* history: the last store operation and what its caller got
    app              \* per client: the page, App's isLoggedIn, Login's fields,
                     \* and the isLoggedIn item of localStorage

vars == <<mode, catalog, blobs, now, mounted, versions, uploading,
          uploadProgress, selectedFile, errors, att, created, lastOp, app>>

(***************************************************************************)
(* Firestore and Storage.                                                   *)
(***************************************************************************)
NoErrors == [f \in {} |-> ""]
EmptyMap == [k \in {} |-> 0]

\* doc(db, "app_versions", `version_${versionCode}`): the raw field text.
DocId(raw) == <<"version_">> \o raw

\* ref(storage, `apk_updates/app-release-v${versionName}.apk`)
storageRef(versionName) == <<"apk_updates/app-release-v">> \o versionName \o <<".apk">>

\* getDownloadURL(ref): the public URL of the object at that path.
getDownloadURL(key) == <<"https://storage/">> \o key

CharRank(ch) ==
    CASE ch = " " -> 32 [] ch = "+" -> 43 [] ch = "-" -> 45 [] ch = "." -> 46
      [] ch \in Digits -> 48 + DigitVal(ch)
      [] OTHER -> 95

\* Byte order of two document names.
RECURSIVE LexLess(_, _)
LexLess(a, b) ==
    IF b = <<>> THEN FALSE
    ELSE IF a = <<>> THEN TRUE
    ELSE IF Head(a) = Head(b) THEN LexLess(Tail(a), Tail(b))
    ELSE CharRank(Head(a)) < CharRank(Head(b))

\* orderBy("versionCode", "desc"): ties are ordered by document name, also
\* descending.
Before(docs, i, j) ==
    \/ docs[i].versionCode > docs[j].versionCode
    \/ docs[i].versionCode = docs[j].versionCode /\ LexLess(j, i)

\* snapshot.docs.map(d => ({ id: d.id, ...d.data() }))
Row(id, d) ==
    [id |-> id, versionName |-> d.versionName, versionCode |-> d.versionCode,
     downloadUrl |-> d.downloadUrl, changelog |-> d.changelog,
     fileSize |-> d.fileSize, uploadedAt |-> d.uploadedAt,
     uploadedBy |-> d.uploadedBy, isCritical |-> d.isCritical,
     isActive |-> d.isActive, downloadCount |-> d.downloadCount]

Data(row) ==
    [versionName |-> row.versionName, versionCode |-> row.versionCode,
     downloadUrl |-> row.downloadUrl, changelog |-> row.changelog,
     fileSize |-> row.fileSize, uploadedAt |-> row.uploadedAt,
     uploadedBy |-> row.uploadedBy, isCritical |-> row.isCritical,
     isActive |-> row.isActive, downloadCount |-> row.downloadCount]

RECURSIVE Ordered(_, _)
Ordered(docs, ids) ==
    IF ids = {} THEN <<>>
    ELSE LET top == CHOOSE i \in ids : \A j \in ids \ {i} : Before(docs, i, j)
         IN  <<Row(top, docs[top])>> \o Ordered(docs, ids \ {top})

\* The query result for a set of documents.
Snapshot(docs) == Ordered(docs, DOMAIN docs)

\* The documents a client's versions list shows, by id.
DocsOf(list) ==
    [id \in { list[i].id : i \in 1..Len(list) } |->
        Data(CHOOSE r \in { list[i] : i \in 1..Len(list) } : r.id = id)]

\* The client's own write shows in its listener at once.
WithLocalWrite(list, id, d) == Snapshot((id :> d) @@ DocsOf(list))

\* A write that replaces the collection by the one document.
setDocAlone(docs, id, d) == (id :> d)

\* setDoc(ref, data) without merge: creates the document or replaces it.
setDoc(docs, id, d) == (id :> d) @@ docs

\* updateDoc(ref, {isActive: v}): fails when the document does not exist.
updateDocOk(docs, id) == id \in DOMAIN docs

\* A toggle that negates the stored value instead of writing the given one.
updateDocFlip(docs, id, v) == [docs EXCEPT ![id].isActive = ~@]

\* A toggle written with setDoc: the document is replaced by {isActive: v}.
updateDocReplace(docs, id, v) ==
    [docs EXCEPT ![id] =
        [versionName |-> <<>>, versionCode |-> NaN, downloadUrl |-> <<>>,
         changelog |-> <<>>, fileSize |-> 0, uploadedAt |-> 0, uploadedBy |-> "",
         isCritical |-> FALSE, isActive |-> v, downloadCount |-> 0]]

updateDoc(docs, id, v) == [docs EXCEPT ![id].isActive = v]


(***************************************************************************)
(* Validation.                                                              *)
(***************************************************************************)
Entry(failed, field, message) == IF failed THEN (field :> message) ELSE NoErrors

\* versions.some(v => v.versionCode === parseInt(versionCode)); NaN is not
\* equal to itself.
codeExists(list, raw) ==
    \E i \in 1..Len(list) :
        parseInt(raw) # NaN /\ list[i].versionCode = parseInt(raw)

\* validateForm of the binary build.  Later assignments to the same key
\* replace earlier ones, so the left operand of @@ is the later statement.
validateFormBinary(d, file, list) ==
       Entry(codeExists(list, d.versionCode), "versionCode", "Version code already exists")
    @@ Entry(trim(d.changelog) = <<>>, "changelog", "Changelog is required")
    @@ Entry(d.versionCode = <<>> \/ LessOrEqualZero(d.versionCode),
             "versionCode", "Valid version code is required")
    @@ Entry(trim(d.versionName) = <<>>, "versionName", "Version name is required")
    @@ Entry(file = NoFile, "file", "Please select an APK file")

\* validateForm of the link build.
validateFormLink(d, list) ==
       Entry(codeExists(list, d.versionCode), "versionCode", "Version code already exists")
    @@ Entry(d.fileSize = <<>> \/ LessOrEqualZero(d.fileSize), "fileSize", "File size is required")
    @@ Entry(trim(d.changelog) = <<>>, "changelog", "Changelog is required")
    @@ Entry(d.versionCode = <<>> \/ LessOrEqualZero(d.versionCode),
             "versionCode", "Valid version code is required")
    @@ Entry(trim(d.versionName) = <<>>, "versionName", "Version name is required")
    @@ (IF trim(d.downloadUrl) = <<>>
        THEN ("downloadUrl" :> "Download URL is required")
        ELSE Entry(~IsAbsoluteURL(d.downloadUrl), "downloadUrl", "Invalid URL format"))

\* A validation that stops at the first failing check.
validateFormFirstOnly(m, d, file, list) ==
    LET e == IF m = "binary" THEN validateFormBinary(d, file, list)
             ELSE validateFormLink(d, list)
    IN  IF DOMAIN e = {} THEN e
        ELSE LET k == CHOOSE f \in DOMAIN e : TRUE IN (k :> e[k])

validateForm(m, d, file, list) ==
    IF m = "binary" THEN validateFormBinary(d, file, list) ELSE validateFormLink(d, list)

(***************************************************************************)
(* The record an admission writes.                                          *)
(***************************************************************************)
\* The object literal passed to setDoc by the binary build.
versionDataBinary(d, file, url, time) ==
    [versionName |-> trim(d.versionName), versionCode |-> parseInt(d.versionCode),
     downloadUrl |-> url, changelog |-> trim(d.changelog),
     fileSize |-> file[1].size, uploadedAt |-> time, uploadedBy |-> "admin",
     isCritical |-> d.isCritical, isActive |-> TRUE, downloadCount |-> 0]

\* The object literal passed to setDoc by the link build.
versionDataLink(d, time) ==
    [versionName |-> trim(d.versionName), versionCode |-> parseInt(d.versionCode),
     downloadUrl |-> trim(d.downloadUrl), changelog |-> trim(d.changelog),
     fileSize |-> fileSizeInBytes(d.fileSize), uploadedAt |-> time,
     uploadedBy |-> "admin",
     isCritical |-> d.isCritical, isActive |-> TRUE, downloadCount |-> 0]

(***************************************************************************)
(* Attempts.                                                                *)
(***************************************************************************)
\* pc: "unused", "transferring", "resolving", "committing", "published",
\* "failed".  alert: what alert() told the operator about the attempt.
\* live: the component instance that started the attempt is still mounted.
\* History: passed, validateForm returned true when the attempt started;
\* rivals, the attempts that were in flight at some time this one was.
Unused ==
    [pc |-> "unused", client |-> "c1", live |-> FALSE, draft |-> EmptyDraft,
     file |-> NoFile, sent |-> 0, data |-> <<>>,
     alert |-> "none", kind |-> "none", passed |-> FALSE, rivals |-> {}]

\* lastOp: the last toggle since the last create, whether it repeats the
\* toggle before it, whether updateDoc resolved, and what the caller got.
NoOp == [kind |-> "none", id |-> <<>>, value |-> FALSE, again |-> FALSE,
         outcome |-> "none", returned |-> "none"]

\* The page of a client: loaded, the page is open; checked, the mount effect
\* of App has run; isLoggedIn, the state of App; stored, the isLoggedIn item
\* of localStorage ("true" or null); username, password and error, the state
\* of Login.  History: loggedOut, the client has logged out at some time.
PageClosed ==
    [loaded |-> FALSE, checked |-> FALSE, isLoggedIn |-> FALSE, stored |-> "null",
     username |-> "", password |-> "", error |-> "", loggedOut |-> FALSE]

\* The page of an operator who has logged in: the panel is shown.
PanelOpen ==
    [PageClosed EXCEPT !.loaded = TRUE, !.checked = TRUE, !.isLoggedIn = TRUE,
                       !.stored = "true"]

\* An attempt that ended keeps only its history: who, what, and the result.
Ended(r, pc, kind, alert) ==
    [r EXCEPT !.pc = pc, !.kind = kind, !.alert = alert, !.live = FALSE,
              !.file = NoFile, !.sent = 0]

\* The next free attempt slot, or 0 when the bound is reached.
FreeSlot ==
    IF \E a \in Attempts : att[a].pc = "unused"
    THEN CHOOSE a \in Attempts : att[a].pc = "unused" /\ \A b \in Attempts : b < a => att[b].pc # "unused"
    ELSE 0

InFlight == { a \in Attempts : att[a].pc \in {"transferring", "resolving", "committing"} }

\* The attempts after one more starts in the free slot.
Started(r) ==
    [a \in Attempts |->
        IF a = FreeSlot THEN [r EXCEPT !.rivals = InFlight]
        ELSE IF a \in InFlight THEN [att[a] EXCEPT !.rivals = @ \cup {FreeSlot}]
        ELSE att[a]]

Init ==
    /\ mode \in {"binary", "link"}
    /\ catalog = EmptyMap
    /\ blobs = EmptyMap
    /\ now = 1
    /\ mounted = [c \in Clients |-> TRUE]
    /\ versions = [c \in Clients |-> <<>>]
    /\ uploading = [c \in Clients |-> FALSE]
    /\ uploadProgress = [c \in Clients |-> 0]
    /\ selectedFile = [c \in Clients |-> NoFile]
    /\ errors = [c \in Clients |-> NoErrors]
    /\ att = [a \in Attempts |-> Unused]
    /\ created = EmptyMap
    /\ lastOp = NoOp
    /\ app = [c \in Clients |-> PanelOpen]

(***************************************************************************)
(* Component life cycle and the snapshot listener.                          *)
(***************************************************************************)
\* UpdateManager mounts: every useState starts from its initial value and the
\* effect subscribes with onSnapshot.
Mount(c) ==
    /\ ~mounted[c]
    /\ mounted' = [mounted EXCEPT ![c] = TRUE]
    /\ versions' = [versions EXCEPT ![c] = <<>>]
    /\ uploading' = [uploading EXCEPT ![c] = FALSE]
    /\ uploadProgress' = [uploadProgress EXCEPT ![c] = 0]
    /\ selectedFile' = [selectedFile EXCEPT ![c] = NoFile]
    /\ errors' = [errors EXCEPT ![c] = NoErrors]
    /\ UNCHANGED <<app, mode, catalog, blobs, now, att, created, lastOp>>

\* UpdateManager unmounts: the effect's cleanup unsubscribes; the component
\* state is gone; an upload or write in flight is not cancelled.
Unmount(c) ==
    /\ mounted[c]
    /\ mounted' = [mounted EXCEPT ![c] = FALSE]
    /\ versions' = [versions EXCEPT ![c] = <<>>]
    /\ uploading' = [uploading EXCEPT ![c] = FALSE]
    /\ uploadProgress' = [uploadProgress EXCEPT ![c] = 0]
    /\ selectedFile' = [selectedFile EXCEPT ![c] = NoFile]
    /\ errors' = [errors EXCEPT ![c] = NoErrors]
    /\ att' = [a \in Attempts |->
                 IF att[a].client = c /\ att[a].pc # "unused"
                 THEN [att[a] EXCEPT !.live = FALSE] ELSE att[a]]
    /\ UNCHANGED <<app, mode, catalog, blobs, now, created, lastOp>>

\* A listener that delivers the records as they were first created.
DeliverFirstCreated(c) ==
    /\ mounted[c]
    /\ versions[c] # Snapshot(created)
    /\ versions' = [versions EXCEPT ![c] = Snapshot(created)]
    /\ UNCHANGED <<app, mode, catalog, blobs, now, mounted, uploading, uploadProgress,
                   selectedFile, errors, att, created, lastOp>>

\* A listener that delivers the first query result only.
DeliverInitial(c) ==
    /\ mounted[c]
    /\ versions[c] = <<>>
    /\ versions[c] # Snapshot(catalog)
    /\ versions' = [versions EXCEPT ![c] = Snapshot(catalog)]
    /\ UNCHANGED <<app, mode, catalog, blobs, now, mounted, uploading, uploadProgress,
                   selectedFile, errors, att, created, lastOp>>

\* The onSnapshot callback: setVersions(the query result).
Deliver(c) ==
    /\ mounted[c]
    /\ versions[c] # Snapshot(catalog)
    /\ versions' = [versions EXCEPT ![c] = Snapshot(catalog)]
    /\ UNCHANGED <<app, mode, catalog, blobs, now, mounted, uploading, uploadProgress,
                   selectedFile, errors, att, created, lastOp>>


(***************************************************************************)
(* Component state writes: a set-state call of an unmounted instance is a   *)
(* no-op.                                                                   *)
(***************************************************************************)
SetIfLive(a, var, value) == IF att[a].live THEN [var EXCEPT ![att[a].client] = value] ELSE var

\* The value of null in the errors object.
JsNull == "null"

(***************************************************************************)
(* Binary build: file selection and upload.                                 *)
(***************************************************************************)
\* handleFileSelect without the check of the size.
handleFileSelectAnySize(c, f) ==
    /\ mode = "binary"
    /\ mounted[c]
    /\ ~uploading[c]
    /\ IF ~endsWith(f.name, <<".", "a", "p", "k">>)
       THEN /\ errors' = [errors EXCEPT ![c] = ("file" :> "Please select a valid APK file") @@ @]
            /\ UNCHANGED selectedFile
       ELSE /\ selectedFile' = [selectedFile EXCEPT ![c] = <<f>>]
            /\ errors' = [errors EXCEPT ![c] = ("file" :> JsNull) @@ @]
    /\ UNCHANGED <<app, mode, catalog, blobs, now, mounted, versions, uploading,
                   uploadProgress, att, created, lastOp>>

\* handleFileSelect: the input is disabled while uploading.
handleFileSelect(c, f) ==
    /\ mode = "binary"
    /\ mounted[c]
    /\ ~uploading[c]
    /\ IF ~endsWith(f.name, <<".", "a", "p", "k">>)
       THEN /\ errors' = [errors EXCEPT ![c] = ("file" :> "Please select a valid APK file") @@ @]
            /\ UNCHANGED selectedFile
       ELSE IF f.size > MaxFileBytes
       THEN /\ errors' = [errors EXCEPT ![c] = ("file" :> "File size must be less than 100MB") @@ @]
            /\ UNCHANGED selectedFile
       ELSE /\ selectedFile' = [selectedFile EXCEPT ![c] = <<f>>]
            /\ errors' = [errors EXCEPT ![c] = ("file" :> JsNull) @@ @]
    /\ UNCHANGED <<app, mode, catalog, blobs, now, mounted, versions, uploading,
                   uploadProgress, att, created, lastOp>>

\* handleUpload without the early return on a failed validation.
handleUploadUnchecked(c, d) ==
    /\ mode = "binary"
    /\ mounted[c]
    /\ ~uploading[c]
    /\ selectedFile[c] # NoFile
    /\ FreeSlot # 0
    /\ LET e == validateForm("binary", d, selectedFile[c], versions[c])
       IN  /\ errors' = [errors EXCEPT ![c] = e]
           /\ att' = Started([Unused EXCEPT !.pc = "transferring", !.client = c,
                                            !.live = TRUE, !.draft = d,
                                            !.file = selectedFile[c],
                                            !.passed = (DOMAIN e = {})])
    /\ uploading' = [uploading EXCEPT ![c] = TRUE]
    /\ uploadProgress' = [uploadProgress EXCEPT ![c] = 0]
    /\ UNCHANGED <<app, mode, catalog, blobs, now, mounted, versions, selectedFile,
                   created, lastOp>>

\* handleUpload up to the call of uploadBytesResumable: validation, then the
\* upload task starts.  The button is disabled while uploading.
handleUpload(c, d) ==
    /\ mode = "binary"
    /\ mounted[c]
    /\ ~uploading[c]
    /\ LET e == validateForm("binary", d, selectedFile[c], versions[c])
       IN  /\ errors' = [errors EXCEPT ![c] = e]
           /\ IF DOMAIN e # {}
              THEN UNCHANGED <<uploading, uploadProgress, att>>
              ELSE /\ FreeSlot # 0
                   /\ uploading' = [uploading EXCEPT ![c] = TRUE]
                   /\ uploadProgress' = [uploadProgress EXCEPT ![c] = 0]
                   /\ att' = Started([Unused EXCEPT !.pc = "transferring", !.client = c,
                                                    !.live = TRUE, !.draft = d,
                                                    !.file = selectedFile[c],
                                                    !.passed = (DOMAIN e = {})])
    /\ UNCHANGED <<app, mode, catalog, blobs, now, mounted, versions, selectedFile,
                   created, lastOp>>

\* The byte counts a state_changed event may report for a file of that size.
\* An event that repeats the count of the one before it changes no state.
ProgressPoints(size) == {size \div 2, size}

\* bytesTransferred / totalBytes, without the factor 100.
Ratio(b, size) == b \div size

\* bytesTransferred / totalBytes * 100, rounded down; large sizes are counted
\* in KiB so that the product stays within the integers of the checker.
Percent(b, size) ==
    IF size <= 1024 THEN (b * 100) \div size
    ELSE ((b \div 1024) * 100) \div (size \div 1024)

\* The state_changed callback: progress = bytesTransferred / totalBytes * 100.
Progress(a) ==
    /\ att[a].pc = "transferring"
    /\ \E b \in ProgressPoints(att[a].file[1].size) :
          /\ b > att[a].sent
          /\ att' = [att EXCEPT ![a].sent = b]
          /\ uploadProgress' = SetIfLive(a, uploadProgress, Percent(b, att[a].file[1].size))
    /\ UNCHANGED <<app, mode, catalog, blobs, now, mounted, versions, uploading,
                   selectedFile, errors, created, lastOp>>

\* The error callback without its setUploading(false).
TransferErrorStuck(a) ==
    /\ att[a].pc = "transferring"
    /\ att' = [att EXCEPT ![a] = Ended(@, "failed", "TransferFailure", "error")]
    /\ UNCHANGED <<app, mode, catalog, blobs, now, mounted, versions, uploading,
                   uploadProgress, selectedFile, errors, created, lastOp>>

\* The error callback of the upload task: alert, setUploading(false).
TransferError(a) ==
    /\ att[a].pc = "transferring"
    /\ att' = [att EXCEPT ![a] = Ended(@, "failed", "TransferFailure", "error")]
    /\ uploading' = SetIfLive(a, uploading, FALSE)
    /\ UNCHANGED <<app, mode, catalog, blobs, now, mounted, versions, uploadProgress,
                   selectedFile, errors, created, lastOp>>

\* The upload ends: the object is in the bucket and the completion callback
\* starts with await getDownloadURL.
TransferComplete(a) ==
    /\ att[a].pc = "transferring"
    /\ att' = [att EXCEPT ![a].pc = "resolving", ![a].sent = att[a].file[1].size]
    /\ blobs' = (storageRef(att[a].draft.versionName) :> att[a].file[1].content) @@ blobs
    /\ UNCHANGED <<app, mode, catalog, now, mounted, versions, uploading, uploadProgress,
                   selectedFile, errors, created, lastOp>>

\* getDownloadURL resolves: the record is built and setDoc is called.
ResolveOk(a) ==
    /\ att[a].pc = "resolving"
    /\ att' = [att EXCEPT ![a].pc = "committing",
                          ![a].data = <<versionDataBinary(att[a].draft, att[a].file,
                                          getDownloadURL(storageRef(att[a].draft.versionName)), now)>>]
    /\ now' = now + 1
    /\ UNCHANGED <<app, mode, catalog, blobs, mounted, versions, uploading, uploadProgress,
                   selectedFile, errors, created, lastOp>>

\* getDownloadURL rejects inside the async completion callback: nothing
\* catches it, so no alert is shown and uploading keeps its value.
ResolveFail(a) ==
    /\ att[a].pc = "resolving"
    /\ att' = [att EXCEPT ![a] = Ended(@, "failed", "UrlResolutionFailure", "none")]
    /\ UNCHANGED <<app, mode, catalog, blobs, now, mounted, versions, uploading,
                   uploadProgress, selectedFile, errors, created, lastOp>>

(***************************************************************************)
(* Link build: submit.                                                      *)
(***************************************************************************)
\* handleSubmit without the early return on a failed validation.
handleSubmitUnchecked(c, d) ==
    /\ mode = "link"
    /\ mounted[c]
    /\ ~uploading[c]
    /\ FreeSlot # 0
    /\ LET e == validateForm("link", d, NoFile, versions[c])
       IN  /\ errors' = [errors EXCEPT ![c] = e]
           /\ att' = Started([Unused EXCEPT !.pc = "committing", !.client = c,
                                            !.live = TRUE, !.draft = d,
                                            !.data = <<versionDataLink(d, now)>>,
                                            !.passed = (DOMAIN e = {})])
    /\ uploading' = [uploading EXCEPT ![c] = TRUE]
    /\ now' = now + 1
    /\ UNCHANGED <<app, mode, catalog, blobs, mounted, versions, uploadProgress,
                   selectedFile, created, lastOp>>

\* handleSubmit up to the call of setDoc.
handleSubmit(c, d) ==
    /\ mode = "link"
    /\ mounted[c]
    /\ ~uploading[c]
    /\ LET e == validateForm("link", d, NoFile, versions[c])
       IN  /\ errors' = [errors EXCEPT ![c] = e]
           /\ IF DOMAIN e # {}
              THEN UNCHANGED <<uploading, att, now>>
              ELSE /\ FreeSlot # 0
                   /\ uploading' = [uploading EXCEPT ![c] = TRUE]
                   /\ att' = Started([Unused EXCEPT !.pc = "committing", !.client = c,
                                                    !.live = TRUE, !.draft = d,
                                                    !.data = <<versionDataLink(d, now)>>,
                                                    !.passed = (DOMAIN e = {})])
                   /\ now' = now + 1
    /\ UNCHANGED <<app, mode, catalog, blobs, mounted, versions, uploadProgress,
                   selectedFile, created, lastOp>>

(***************************************************************************)
(* The catalog write of an admission, both builds.                          *)
(***************************************************************************)
\* await setDoc resolves: the document is written, the form is reset and the
\* success alert is shown.
CommitOk(a) ==
    /\ att[a].pc = "committing"
    /\ LET id == DocId(att[a].draft.versionCode)
           d  == att[a].data[1]
       IN  /\ catalog' = setDoc(catalog, id, d)
           /\ created' = IF id \in DOMAIN created THEN created ELSE (id :> d) @@ created
           /\ versions' = SetIfLive(a, versions, WithLocalWrite(versions[att[a].client], id, d))
    /\ lastOp' = NoOp
    /\ att' = [att EXCEPT ![a] = Ended(@, "published", "none", "success")]
    /\ uploading' = SetIfLive(a, uploading, FALSE)
    /\ uploadProgress' = SetIfLive(a, uploadProgress, 0)
    /\ selectedFile' = SetIfLive(a, selectedFile, NoFile)
    /\ UNCHANGED <<app, mode, blobs, now, mounted, errors>>

\* await setDoc rejects.  The link build catches it: alert, then
\* setUploading(false).  In the binary build the await is inside the async
\* completion callback, which nothing catches.
CommitFail(a) ==
    /\ att[a].pc = "committing"
    /\ att' = [att EXCEPT ![a] = Ended(@, "failed", "CommitFailure",
                                       IF mode = "link" THEN "error" ELSE "none")]
    /\ uploading' = IF mode = "link" THEN SetIfLive(a, uploading, FALSE) ELSE uploading
    /\ UNCHANGED <<app, mode, catalog, blobs, now, mounted, versions, uploadProgress,
                   selectedFile, errors, created, lastOp>>

(***************************************************************************)
(* Toggle.                                                                  *)
(***************************************************************************)
\* What toggleVersionStatus hands back to its caller: the function has no
\* return statement and its catch only logs.
toggleReturn(resolved) == "void"

\* toggleVersionStatus(versionId, currentStatus) called by client c.
toggleVersionStatus(c, versionId, currentStatus) ==
    LET ok == updateDocOk(catalog, versionId)
    IN  /\ catalog' = IF ok THEN updateDoc(catalog, versionId, ~currentStatus) ELSE catalog
        /\ versions' =
             IF ok /\ mounted[c] /\ versionId \in DOMAIN DocsOf(versions[c])
             THEN [versions EXCEPT ![c] =
                     WithLocalWrite(@, versionId,
                        [DocsOf(@)[versionId] EXCEPT !.isActive = ~currentStatus])]
             ELSE versions
        /\ lastOp' = [kind |-> "toggle", id |-> versionId,
                      value |-> ~currentStatus,
                      again |-> lastOp.kind = "toggle" /\ lastOp.id = versionId
                                /\ lastOp.value = ~currentStatus,
                      outcome |-> IF ok THEN "resolved" ELSE "rejected",
                      returned |-> toggleReturn(ok)]
        /\ UNCHANGED <<app, mode, blobs, now, mounted, uploading, uploadProgress,
                       selectedFile, errors, att, created>>

\* A toggle button that negates the value the store holds.
ToggleStored(c, i) ==
    /\ mounted[c]
    /\ i \in 1..Len(versions[c])
    /\ versions[c][i].id \in DOMAIN catalog
    /\ toggleVersionStatus(c, versions[c][i].id, catalog[versions[c][i].id].isActive)

\* The toggle button of row i of the versions table.
Toggle(c, i) ==
    /\ mounted[c]
    /\ i \in 1..Len(versions[c])
    /\ toggleVersionStatus(c, versions[c][i].id, versions[c][i].isActive)

(***************************************************************************)
(* Specification.                                                           *)
(***************************************************************************)
Next ==
    \/ \E c \in Clients : Deliver(c)
    \/ \E c \in Clients : handleFileSelect(c, FileOf(c))
    \/ \E c \in Clients, d \in DraftsOf("binary") : handleUpload(c, d)
    \/ \E a \in Attempts : TransferError(a)
    \/ \E a \in Attempts : TransferComplete(a)
    \/ \E a \in Attempts : ResolveOk(a)
    \/ \E a \in Attempts : ResolveFail(a)
    \/ \E c \in Clients, d \in DraftsOf("link") : handleSubmit(c, d)
    \/ \E a \in Attempts : CommitOk(a)
    \/ \E a \in Attempts : CommitFail(a)

\* Admissions of both builds by two mounted clients.
Spec == Init /\ [][Next]_vars

\* The link build with the toggle buttons of the versions table.
NextToggle ==
    \/ \E c \in Clients : Deliver(c)
    \/ \E c \in Clients, d \in DraftsOf("link") : handleSubmit(c, d)
    \/ \E a \in Attempts : CommitOk(a)
    \/ \E a \in Attempts : CommitFail(a)
    \/ \E c \in Clients, i \in 1..MaxAttempts : Toggle(c, i)

InitLink == Init /\ mode = "link"

SpecToggle == InitLink /\ [][NextToggle]_vars

\* A document name a view may still show after its document is gone.
StaleIds == { DocId(<<"2">>) }

\* toggleVersionStatus called for a row whose document is not in the store.
StaleToggle(c, id, currentStatus) ==
    /\ mounted[c]
    /\ id \notin DOMAIN catalog
    /\ toggleVersionStatus(c, id, currentStatus)

NextStale ==
    \/ \E c \in Clients : Deliver(c)
    \/ \E c \in Clients, d \in DraftsOf("link") : handleSubmit(c, d)
    \/ \E a \in Attempts : CommitOk(a)
    \/ \E c \in Clients, id \in StaleIds, st \in BOOLEAN : StaleToggle(c, id, st)

SpecStale == InitLink /\ [][NextStale]_vars


(***************************************************************************)
(* Claims about admission.                                                  *)
(***************************************************************************)
IsEnded(a) == att[a].pc \in {"published", "failed"}

\* The fields of a document that no operation is meant to change.
Immutable(d) ==
    <<d.versionName, d.versionCode, d.downloadUrl, d.changelog, d.fileSize,
      d.uploadedAt, d.uploadedBy, d.isCritical>>

\* C1: of two attempts that were in flight together with the same
\* versionCode, at most one ends Published, and the catalog holds one record
\* with that code, carrying the fields of the first writer.
C1_OneWinner ==
    \A a, b \in Attempts :
        (a # b /\ b \in att[a].rivals /\ att[a].pc = "published" /\ IsEnded(b)
           /\ parseInt(att[a].draft.versionCode) = parseInt(att[b].draft.versionCode)
           /\ att[b].kind \notin {"TransferFailure", "UrlResolutionFailure", "CommitFailure"})
        => /\ att[b].pc = "failed"
           /\ Cardinality({ id \in DOMAIN catalog :
                              catalog[id].versionCode = parseInt(att[a].draft.versionCode) }) = 1
           /\ \A id \in DOMAIN catalog : Immutable(catalog[id]) = Immutable(created[id])

\* C2: the catalog write of an attempt whose versionCode already has a
\* record fails and leaves the catalog as it was.
C2_DuplicateRejected ==
    [][\A a \in Attempts :
          (/\ att[a].pc = "committing"
           /\ att'[a].pc # "committing"
           /\ \E id \in DOMAIN catalog :
                 catalog[id].versionCode = att[a].data[1].versionCode)
          => (att'[a].pc = "failed" /\ catalog' = catalog)]_vars

\* C3: every record keeps the versionName, versionCode, downloadUrl,
\* changelog, fileSize, uploadedAt, uploadedBy and isCritical it was created
\* with.
C3_CreatedFieldsKept ==
    \A id \in DOMAIN catalog : Immutable(catalog[id]) = Immutable(created[id])

\* C4: every versions list is sorted strictly descending by versionCode, and
\* its first entry has the maximum versionCode.
C4_StrictlyDescending ==
    \A c \in Clients :
        /\ \A i \in 1..(Len(versions[c]) - 1) :
              versions[c][i].versionCode > versions[c][i + 1].versionCode
        /\ \A i \in 1..Len(versions[c]) :
              versions[c][1].versionCode >= versions[c][i].versionCode

(***************************************************************************)
(* Claims about the toggle.                                                 *)
(***************************************************************************)
\* C5: a toggle that sets the value the toggle before it set on the same
\* record leaves the catalog as it is, and updateDoc resolves both times.
C5_ToggleIdempotent ==
    [][(lastOp'.kind = "toggle" /\ lastOp'.again)
         => (/\ catalog' = catalog
             /\ lastOp'.outcome = "resolved"
             /\ lastOp.outcome = "resolved"
             /\ lastOp'.returned = "void")]_vars

C5_Witness ==
    /\ lastOp.kind = "toggle"
    /\ lastOp.again
    /\ lastOp.value = FALSE
    /\ catalog[lastOp.id].isActive = FALSE

IdsOf(list) == [i \in 1..Len(list) |-> list[i].id]

\* C6: a toggle changes the isActive field of the record it addresses and
\* nothing else: the other fields, the other records, the set of records and
\* their order in the query result and in the versions lists stay.
C6_ToggleFrame ==
    [][\A c \in Clients, i \in 1..MaxAttempts :
          Toggle(c, i) =>
            /\ DOMAIN catalog' = DOMAIN catalog
            /\ \A id \in DOMAIN catalog :
                  /\ Immutable(catalog'[id]) = Immutable(catalog[id])
                  /\ catalog'[id].downloadCount = catalog[id].downloadCount
                  /\ id # versions[c][i].id => catalog'[id] = catalog[id]
            /\ catalog'[versions[c][i].id].isActive = ~versions[c][i].isActive
            /\ IdsOf(Snapshot(catalog')) = IdsOf(Snapshot(catalog))
            /\ \A k \in Clients : IdsOf(versions'[k]) = IdsOf(versions[k])]_vars

C6_Witness ==
    /\ lastOp.kind = "toggle"
    /\ Cardinality(DOMAIN catalog) = 2
    /\ \E id \in DOMAIN catalog : ~catalog[id].isActive
    /\ \E id \in DOMAIN catalog : catalog[id].isActive

\* C7: a toggle addressed to a record that is not in the catalog returns
\* NotFound to its caller and leaves the catalog unchanged.
C7_NotFoundReturned ==
    (lastOp.kind = "toggle" /\ lastOp.id \notin DOMAIN catalog)
        => lastOp.returned = "NotFound"


C7_Failing ==
    /\ lastOp.kind = "toggle"
    /\ lastOp.id \notin DOMAIN catalog
    /\ lastOp.outcome = "rejected"

(***************************************************************************)
(* Validation as a function of the draft.                                   *)
(***************************************************************************)
ValidationDrafts(m) ==
    [versionName : { <<>>, <<" ">>, <<"a">> },
     versionCode : { <<>>, <<"0">>, <<"-", "1">>, <<"1">>, <<"0", ".", "5">>, <<"1", "8">> },
     changelog   : { <<>>, <<"x">> },
     isCritical  : { TRUE },
     downloadUrl : IF m = "link" THEN { <<>>, <<"x">>, <<"h", ":", "a">> } ELSE { <<>> },
     fileSize    : IF m = "link" THEN { <<>>, <<"0">>, <<"1">>, <<"0", ".", "5">> } ELSE { <<>> }]

\* The catalog after version code 1 was published by the deployed build.
OneVersion(m) ==
    DocId(<<"1">>) :>
        (IF m = "link" THEN versionDataLink(Draft(m, <<"a">>, <<"1">>, TRUE), 1)
         ELSE versionDataBinary(Draft(m, <<"a">>, <<"1">>, TRUE), <<FileOf("c1")>>,
                                getDownloadURL(storageRef(<<"a">>)), 1))

\* The form holds a draft, the file input a file or none, and the versions
\* list shows an empty catalog or one with version code 1.
InitValidate ==
    /\ mode \in {"binary", "link"}
    /\ catalog \in {EmptyMap, OneVersion(mode)}
    /\ created = catalog
    /\ blobs = IF mode = "binary" /\ catalog # EmptyMap
               THEN (storageRef(<<"a">>) :> "f1") ELSE EmptyMap
    /\ now = IF catalog = EmptyMap THEN 1 ELSE 2
    /\ mounted = [c \in Clients |-> TRUE]
    /\ versions = [c \in Clients |-> Snapshot(catalog)]
    /\ uploading = [c \in Clients |-> FALSE]
    /\ uploadProgress = [c \in Clients |-> 0]
    /\ \E f \in (IF mode = "binary" THEN {NoFile, <<FileOf("c1")>>} ELSE {NoFile}) :
          selectedFile = [c \in Clients |-> f]
    /\ errors = [c \in Clients |-> NoErrors]
    /\ att = [a \in Attempts |-> Unused]
    /\ \E d \in ValidationDrafts(mode) :
          lastOp = [kind |-> "draft", draft |-> d, client |-> "c1"]
    /\ app = [c \in Clients |-> PanelOpen]

\* validateForm() called on the draft: setErrors(newErrors).
Validate(c) ==
    /\ lastOp.kind = "draft"
    /\ errors' = [errors EXCEPT ![c] =
                    validateForm(mode, lastOp.draft, selectedFile[c], versions[c])]
    /\ lastOp' = [lastOp EXCEPT !.kind = "validated", !.client = c]
    /\ UNCHANGED <<app, mode, catalog, blobs, now, mounted, versions, uploading,
                   uploadProgress, selectedFile, att, created>>

SpecValidate == InitValidate /\ [][\E c \in Clients : Validate(c)]_vars

\* The fields whose own check fails, as the validation contract lists them.
FailingChecks(m, d, file) ==
       { f \in {"versionName"} : trim(d.versionName) = <<>> }
  \cup { f \in {"changelog"} : trim(d.changelog) = <<>> }
  \cup { f \in {"versionCode"} : d.versionCode = <<>> \/ NumberSign(d.versionCode) \in {-1, 0} }
  \cup { f \in {"downloadUrl"} : m = "link" /\ ~IsAbsoluteURL(d.downloadUrl) }
  \cup { f \in {"fileSize"} : m = "link" /\ (d.fileSize = <<>> \/ NumberSign(d.fileSize) \in {-1, 0}) }
  \cup { f \in {"file"} : m = "binary" /\ file = NoFile }

\* C8: the error mapping has one entry for each field whose check fails, and
\* no other entry but versionCode for a code the versions list already shows;
\* an otherwise valid draft with empty changelog and versionCode 0 yields the
\* entries changelog and versionCode.
C8_AllViolationsReported ==
    lastOp.kind = "validated" =>
        LET c    == lastOp.client
            d    == lastOp.draft
            e    == errors[c]
            fail == FailingChecks(mode, d, selectedFile[c])
        IN  /\ fail \subseteq DOMAIN e
            /\ DOMAIN e \ fail \subseteq {"versionCode"}
            /\ (DOMAIN e \ fail # {}) =>
                  \E i \in 1..Len(versions[c]) : versions[c][i].versionCode = parseInt(d.versionCode)
            /\ (d.changelog = <<>> /\ d.versionCode = <<"0">> /\ fail = {"changelog", "versionCode"})
                  => DOMAIN e = {"changelog", "versionCode"}

C8_Witness ==
    /\ lastOp.kind = "validated"
    /\ lastOp.draft.changelog = <<>>
    /\ lastOp.draft.versionCode = <<"0">>
    /\ lastOp.draft.versionName = <<"a">>
    /\ DOMAIN errors[lastOp.client] = {"changelog", "versionCode"}

(***************************************************************************)
(* Claims about the course of an attempt.                                   *)
(***************************************************************************)
\* The steps an attempt may take in the deployed build.
AttemptSteps ==
    IF mode = "binary"
    THEN { <<"unused", "transferring">>, <<"transferring", "resolving">>,
           <<"transferring", "failed">>, <<"resolving", "committing">>,
           <<"resolving", "failed">>, <<"committing", "published">>,
           <<"committing", "failed">> }
    ELSE { <<"unused", "committing">>, <<"committing", "published">>,
           <<"committing", "failed">> }

\* C9: an attempt starts only with a passed validation, transfers only in the
\* binary build, writes the catalog only from Committing, and once Published
\* or Failed it takes no further step; the bucket and the catalog change only
\* by the transfer and the commit of such an attempt.
C9_AttemptLifecycle ==
    [][/\ \A a \in Attempts :
             /\ att'[a].pc # att[a].pc => <<att[a].pc, att'[a].pc>> \in AttemptSteps
             /\ att[a].pc \in {"published", "failed"} => att'[a] = att[a]
             /\ att'[a].pc # "unused" => att'[a].passed
       /\ catalog' # catalog =>
             \E a \in Attempts : /\ att[a].pc = "committing"
                                 /\ att'[a].pc = "published"
                                 /\ att[a].passed
       /\ blobs' # blobs =>
             /\ mode = "binary"
             /\ \E a \in Attempts : /\ att[a].pc = "transferring"
                                    /\ att'[a].pc = "resolving"
                                    /\ att[a].passed]_vars

C9_Witness ==
    /\ mode = "binary"
    /\ \E a, b \in Attempts :
          /\ att[a].pc = "failed" /\ att[a].kind = "CommitFailure"
          /\ att[b].pc = "published"
          /\ errors[att[b].client] # NoErrors

\* C10: when the transfer of an attempt ends with a transport error the
\* attempt is Failed with an alert, it has built no record and the catalog is
\* unchanged, and the uploading flag of the instance that started it is false
\* again, so that its submit button is enabled.
C10_TransferFailure ==
    [][\A a \in Attempts :
          (att[a].pc = "transferring" /\ att'[a].pc = "failed")
          => /\ att'[a].kind = "TransferFailure"
             /\ att'[a].alert = "error"
             /\ att'[a].data = <<>>
             /\ catalog' = catalog
             /\ att[a].live => (mounted'[att[a].client] /\ ~uploading'[att[a].client])]_vars

C10_Witness ==
    \E a, b \in Attempts :
        /\ att[a].pc = "failed" /\ att[a].kind = "TransferFailure"
        /\ b > a
        /\ att[b].client = att[a].client
        /\ att[b].pc = "published"
        /\ DOMAIN catalog = { DocId(att[b].draft.versionCode) }

(***************************************************************************)
(* Claims about failures after the transfer.                                *)
(***************************************************************************)
\* C11: when the transfer is complete and resolving the download URL fails,
\* the attempt is Failed as a URL resolution failure, the operator is told of
\* the error, the catalog is not written, and the uploading flag of the
\* instance that started the attempt is false again so that it can retry.
C11_UrlResolutionReported ==
    [][\A a \in Attempts :
          (att[a].pc = "resolving" /\ att'[a].pc = "failed")
          => /\ att'[a].kind = "UrlResolutionFailure"
             /\ att'[a].kind # "TransferFailure"
             /\ att'[a].alert = "error"
             /\ catalog' = catalog
             /\ att[a].live => ~uploading'[att[a].client]]_vars

(***************************************************************************)
(* The transfer of the binary build with its progress events.               *)
(***************************************************************************)
InitBinary == Init /\ mode = "binary"

\* The drafts uploaded while the progress is watched.
TransferDrafts ==
    { Draft("binary", <<"a">>, <<"1">>, TRUE), Draft("binary", <<"b">>, <<"2">>, FALSE) }

\* The upload task calls the completion callback after a state_changed event
\* has reported the full byte count.
TransferDone(a) ==
    /\ att[a].pc = "transferring"
    /\ att[a].sent = att[a].file[1].size
    /\ TransferComplete(a)

NextTransfer ==
    \/ \E c \in Clients : handleFileSelect(c, FileOf(c))
    \/ \E c \in Clients, d \in TransferDrafts : handleUpload(c, d)
    \/ \E a \in Attempts : Progress(a)
    \/ \E a \in Attempts : TransferError(a)
    \/ \E a \in Attempts : TransferDone(a)
    \/ \E a \in Attempts : ResolveOk(a)
    \/ \E a \in Attempts : ResolveFail(a)
    \/ \E a \in Attempts : CommitOk(a)
    \/ \E a \in Attempts : CommitFail(a)

SpecTransfer == InitBinary /\ [][NextTransfer]_vars

\* p is b / size * 100 rounded down; large sizes are compared in KiB.
IsPercentOf(p, b, size) ==
    LET u == IF size <= 1024 THEN 1 ELSE 1024
    IN  /\ p * (size \div u) <= (b \div u) * 100
        /\ (b \div u) * 100 < (p + 1) * (size \div u)

FIXED_USERNAME == "admin"

\* Drafts with white space around the name and with version codes whose text
\* is not the decimal numeral of an integer.
RecordDrafts(m) ==
    { Draft(m, <<" ", "a">>, <<"1", ".", "5">>, TRUE),
      Draft(m, <<"b">>, <<"0", "2">>, FALSE) }

NextRecord ==
    \/ \E c \in Clients : Deliver(c)
    \/ \E c \in Clients : handleFileSelect(c, FileOf(c))
    \/ \E c \in Clients, d \in RecordDrafts("binary") : handleUpload(c, d)
    \/ \E a \in Attempts : TransferComplete(a)
    \/ \E a \in Attempts : ResolveOk(a)
    \/ \E c \in Clients, d \in RecordDrafts("link") : handleSubmit(c, d)
    \/ \E a \in Attempts : CommitOk(a)

SpecRecord == Init /\ [][NextRecord]_vars

\* The number n is the value of the decimal numeral in the text.
IsValueOf(n, text) ==
    LET p == DecimalParts(text)
    IN  p.ok /\ ~p.neg /\ n * Pow10(p.frac) = p.num

\* C13: the record a commit writes has isActive true, downloadCount 0, the
\* operator's user name as uploadedBy, the isCritical flag of the draft, the
\* versionName and changelog of the draft without surrounding white space,
\* and the number entered as versionCode.
C13_RecordFromDraft ==
    [][\A a \in Attempts :
          (att[a].pc = "committing" /\ att'[a].pc = "published")
          => \A id \in DOMAIN catalog' :
                (id \notin DOMAIN catalog \/ catalog'[id] # catalog[id])
                => LET r == catalog'[id]
                       d == att[a].draft
                   IN  /\ r.isActive = TRUE
                       /\ r.downloadCount = 0
                       /\ r.uploadedBy = FIXED_USERNAME
                       /\ r.isCritical = d.isCritical
                       /\ r.versionName = trim(d.versionName)
                       /\ r.changelog = trim(d.changelog)
                       /\ IsValueOf(r.versionCode, d.versionCode)]_vars

(***************************************************************************)
(* Subscribers: mounting, unmounting and the snapshots delivered.           *)
(***************************************************************************)
SyncDrafts ==
    { Draft("link", <<"a">>, <<"1">>, TRUE), Draft("link", <<"b">>, <<"2">>, FALSE) }

NextSync ==
    \/ \E c \in Clients : Mount(c)
    \/ \E c \in Clients : Unmount(c)
    \/ \E c \in Clients : Deliver(c)
    \/ \E c \in Clients, d \in SyncDrafts : handleSubmit(c, d)
    \/ \E a \in Attempts : CommitOk(a)
    \/ \E c \in Clients, i \in 1..MaxAttempts : Toggle(c, i)

SpecSync == InitLink /\ [][NextSync]_vars

\* C14: whenever the versions list of a subscribed client changes, the new
\* list is the query result for the catalog as it is at that moment, or the
\* list it had with the client's own write applied (the record it created,
\* or the isActive value it set); the first list after
\* subscribing is such a list too.  As the catalog has one history, no list is
\* older than the list before it.
C14_SnapshotsInOrder ==
    [][\A c \in Clients :
          (mounted[c] /\ mounted'[c] /\ versions'[c] # versions[c])
          => \/ versions'[c] = Snapshot(catalog')
             \/ \E id \in DOMAIN catalog' :
                   \/ versions'[c] = WithLocalWrite(versions[c], id, catalog'[id])
                   \/ /\ id \in DOMAIN DocsOf(versions[c])
                      /\ versions'[c] =
                           WithLocalWrite(versions[c], id,
                              [DocsOf(versions[c])[id] EXCEPT
                                  !.isActive = catalog'[id].isActive])]_vars

C14_Witness ==
    /\ Cardinality(DOMAIN catalog) = 2
    /\ \E id \in DOMAIN catalog : ~catalog[id].isActive
    /\ \E c \in Clients :
          /\ mounted[c]
          /\ versions[c] = Snapshot(catalog)
          /\ \A a \in Attempts : att[a].pc = "published" /\ att[a].client # c

\* The listener of a subscribed client goes on delivering query results.
SpecSyncFair == SpecSync /\ \A c \in Clients : WF_vars(Deliver(c))

\* C15: if from some time on the catalog no longer changes and a client stays
\* subscribed, then from some time on the versions list of that client is the
\* whole catalog ordered by versionCode descending; this holds for the client
\* that made an admission as for any other.
C15_EventuallyReflected ==
    \A c \in Clients :
        (<>[][FALSE]_catalog /\ <>[](mounted[c]))
            => <>[](versions[c] = Snapshot(catalog))

C15_Witness ==
    /\ Cardinality(DOMAIN catalog) = 2
    /\ \E id \in DOMAIN catalog : ~catalog[id].isActive
    /\ \A a \in Attempts : att[a].pc = "published" /\ att[a].client = "c1"
    /\ \A c \in Clients : mounted[c] /\ versions[c] = Snapshot(catalog)

(***************************************************************************)
(* Abandoning an upload: the component is torn down during the transfer.    *)
(***************************************************************************)
\* The operator logs out or leaves the page of the manager while a transfer
\* of the instance is in progress: the component unmounts.
Abandon(c) ==
    /\ \E a \in Attempts : att[a].client = c /\ att[a].live /\ att[a].pc = "transferring"
    /\ Unmount(c)

NextAbandon ==
    \/ \E c \in Clients : Mount(c)
    \/ \E c \in Clients : Abandon(c)
    \/ \E c \in Clients : Deliver(c)
    \/ \E c \in Clients : handleFileSelect(c, FileOf(c))
    \/ \E c \in Clients, d \in TransferDrafts : handleUpload(c, d)
    \/ \E a \in Attempts : TransferComplete(a)
    \/ \E a \in Attempts : ResolveOk(a)
    \/ \E a \in Attempts : CommitOk(a)

SpecAbandon == InitBinary /\ [][NextAbandon]_vars

\* A record with every field of a Version set.
IsWholeRecord(r) ==
    /\ DOMAIN r = {"versionName", "versionCode", "downloadUrl", "changelog", "fileSize",
                   "uploadedAt", "uploadedBy", "isCritical", "isActive", "downloadCount"}
    /\ r.versionName # <<>>
    /\ r.versionCode # NaN
    /\ r.downloadUrl # <<>>
    /\ r.changelog # <<>>

\* C16: every record in the catalog is a whole record, and an attempt whose
\* component was torn down during its transfer never writes the catalog: all
\* it may leave behind is its blob.
C16_AbandonedLeavesBlobOnly ==
    [][/\ \A id \in DOMAIN catalog' : IsWholeRecord(catalog'[id])
       /\ \A a \in Attempts :
             (att[a].pc = "committing" /\ ~att[a].live)
             => (att'[a].pc # "published" /\ catalog' = catalog)]_vars

(***************************************************************************)
(* Claims about the catalog as a whole.                                     *)
(***************************************************************************)
CodesOf(docs) == { docs[id].versionCode : id \in DOMAIN docs }

\* C17: no step removes a record: every document of the catalog is still
\* there after the step, and so is every versionCode.
C17_NeverRemoved ==
    [][/\ DOMAIN catalog \subseteq DOMAIN catalog'
       /\ CodesOf(catalog) \subseteq CodesOf(catalog')]_vars

C17_Witness ==
    /\ Cardinality(CodesOf(catalog)) = 2
    /\ lastOp.kind = "toggle"
    /\ lastOp.outcome = "resolved"
    /\ lastOp.value = TRUE
    /\ catalog[lastOp.id].isActive

(***************************************************************************)
(* Claims about a submit that fails validation.                             *)
(***************************************************************************)
\* C18: a submit whose validation yields a non-empty error mapping, be it for
\* a versionCode that the client's versions list already shows, starts no
\* attempt: nothing is uploaded, the catalog is not written, the uploading
\* flag stays false, and the errors are shown.
C18_InvalidStops ==
    [][\A c \in Clients, d \in DraftsOf(mode) :
          (/\ mounted[c] /\ ~uploading[c]
           /\ UNCHANGED <<versions, selectedFile, mounted>>
           /\ errors'[c] # errors[c] \/ att' # att \/ uploading' # uploading
           /\ handleUpload(c, d) \/ handleSubmit(c, d)
           /\ DOMAIN validateForm(mode, d, selectedFile[c], versions[c]) # {})
          => /\ att' = att
             /\ blobs' = blobs
             /\ catalog' = catalog
             /\ ~uploading'[c]
             /\ errors'[c] = validateForm(mode, d, selectedFile[c], versions[c])]_vars

C18_Witness ==
    \E c \in Clients :
        /\ "versionCode" \in DOMAIN errors[c]
        /\ errors[c]["versionCode"] = "Version code already exists"
        /\ ~uploading[c]
        /\ \A a \in Attempts : att[a].client = c => att[a].pc \in {"unused", "published"}
        /\ Cardinality(DOMAIN catalog) = 1

(***************************************************************************)
(* Claims about the document names.                                         *)
(***************************************************************************)
DigitChar(n) ==
    CASE n = 0 -> "0" [] n = 1 -> "1" [] n = 2 -> "2" [] n = 3 -> "3" [] n = 4 -> "4"
      [] n = 5 -> "5" [] n = 6 -> "6" [] n = 7 -> "7" [] n = 8 -> "8" [] n = 9 -> "9"

\* The decimal numeral of a natural number, as `${n}` writes it.
RECURSIVE Numeral(_)
Numeral(n) ==
    IF n < 10 THEN <<DigitChar(n)>> ELSE Numeral(n \div 10) \o <<DigitChar(n % 10)>>

\* C19: every record is stored under the name version_ followed by the
\* numeral of its own versionCode, and no two documents carry the same
\* versionCode.
C19_KeyIsCode ==
    /\ \A id \in DOMAIN catalog :
          /\ catalog[id].versionCode >= 0
          /\ id = <<"version_">> \o Numeral(catalog[id].versionCode)
    /\ \A i, j \in DOMAIN catalog :
          catalog[i].versionCode = catalog[j].versionCode => i = j

\* C20: when the transfer of an attempt succeeded and its catalog write
\* fails, the uploaded object is still in the bucket, the catalog is unchanged
\* and holds no record of the attempt, and the attempt is Failed with the
\* operator told of the error.
C20_CommitFailureReported ==
    [][\A a \in Attempts :
          (mode = "binary" /\ att[a].pc = "committing" /\ att'[a].pc = "failed")
          => /\ storageRef(att[a].draft.versionName) \in DOMAIN blobs'
             /\ catalog' = catalog
             /\ \A id \in DOMAIN catalog' : catalog'[id] # att[a].data[1]
             /\ att'[a].kind = "CommitFailure"
             /\ att'[a].alert = "error"]_vars

(***************************************************************************)
(* The bucket: object paths and what they hold.                             *)
(***************************************************************************)
\* Drafts whose names differ in white space only, and drafts of different
\* codes with one name.
BlobDrafts ==
    { Draft("binary", <<"a">>, <<"1">>, TRUE),
      Draft("binary", <<"a", " ">>, <<"2">>, FALSE),
      Draft("binary", <<"a">>, <<"2">>, FALSE) }

NextBlob ==
    \/ \E c \in Clients : handleFileSelect(c, FileOf(c))
    \/ \E c \in Clients, d \in BlobDrafts : handleUpload(c, d)
    \/ \E a \in Attempts : TransferError(a)
    \/ \E a \in Attempts : TransferComplete(a)
    \/ \E a \in Attempts : ResolveOk(a)
    \/ \E a \in Attempts : CommitOk(a)

SpecBlob == InitBinary /\ [][NextBlob]_vars

\* The attempt has put its object into the bucket.
Uploaded(a) ==
    \/ att[a].pc \in {"resolving", "committing", "published"}
    \/ att[a].pc = "failed" /\ att[a].kind # "TransferFailure"

\* C21: the object path of an upload is determined by the version name the
\* record carries, so uploads of one version name share one path and the
\* bucket holds one object for each version name.
C21_OneBlobPerName ==
    /\ \A a, b \in Attempts :
          (Uploaded(a) /\ Uploaded(b)
             /\ trim(att[a].draft.versionName) = trim(att[b].draft.versionName))
          => storageRef(att[a].draft.versionName) = storageRef(att[b].draft.versionName)
    /\ Cardinality(DOMAIN blobs)
          <= Cardinality({ trim(att[a].draft.versionName) : a \in { x \in Attempts : Uploaded(x) } })

\* The record the attempt wrote is the one its document holds now.
HoldsRecordOf(a) ==
    /\ att[a].pc = "published"
    /\ DocId(att[a].draft.versionCode) \in DOMAIN catalog
    /\ catalog[DocId(att[a].draft.versionCode)] = att[a].data[1]

\* C26: the downloadUrl of every published record is the URL of an object
\* in the bucket, and that object is the file uploaded by the admission that
\* wrote the record.
C26_UrlServesOwnArtifact ==
    \A a \in Attempts :
        HoldsRecordOf(a)
        => \E k \in DOMAIN blobs :
              /\ att[a].data[1].downloadUrl = getDownloadURL(k)
              /\ blobs[k] = FileOf(att[a].client).content

(***************************************************************************)
(* Claims about the active flags.                                           *)
(***************************************************************************)
\* C22: the catalog write of an admission leaves the isActive flag of every
\* record that exists as it is; there is no limit on the number of active
\* records.
C22_CreateKeepsActiveFlags ==
    [][\A a \in Attempts :
          (att[a].pc = "committing" /\ att'[a].pc = "published")
          => \A id \in DOMAIN catalog :
                /\ id \in DOMAIN catalog'
                /\ catalog'[id].isActive = catalog[id].isActive]_vars

(***************************************************************************)
(* The file input: any file may be offered.                                 *)
(***************************************************************************)
NextSelect ==
    \/ \E c \in Clients, f \in GoodFiles \cup BadFiles : handleFileSelect(c, f)
    \/ \E c \in Clients, d \in TransferDrafts : handleUpload(c, d)
    \/ \E a \in Attempts : TransferComplete(a)

SpecSelect == InitBinary /\ [][NextSelect]_vars

IsAcceptable(f) == endsWith(f.name, <<".", "a", "p", "k">>) /\ f.size <= MaxFileBytes

\* C23: the selected file of a client and the file of every transfer have a
\* name ending in .apk and at most 100 MiB, and what the bucket holds was
\* such a file; a file offered that fails a check does not become the
\* selected file.
C23_OnlyApkWithinCeiling ==
    /\ \A c \in Clients : selectedFile[c] # NoFile => IsAcceptable(selectedFile[c][1])
    /\ \A a \in Attempts : att[a].file # NoFile => IsAcceptable(att[a].file[1])
    /\ \A k \in DOMAIN blobs : \E f \in GoodFiles \cup BadFiles :
          f.content = blobs[k] /\ IsAcceptable(f)

C23_Witness ==
    \E a \in Attempts, c \in Clients :
        /\ att[a].pc = "resolving"
        /\ att[a].client # c
        /\ blobs[storageRef(att[a].draft.versionName)] = "f2"
        /\ "file" \in DOMAIN errors[c]
        /\ errors[c]["file"] = "File size must be less than 100MB"
        /\ selectedFile[c] # NoFile
        /\ selectedFile[c][1].size = 4

(***************************************************************************)
(* Claims about the uploading flag.                                         *)
(***************************************************************************)
\* C24: an attempt that ends, Published or Failed at whatever point, leaves
\* the uploading flag of its client false: the flag is true only while an
\* attempt of the client is still in flight, so the client can submit again.
C24_FlagClearedAtEnd ==
    \A c \in Clients :
        (mounted[c] /\ uploading[c])
        => \E a \in InFlight : att[a].client = c /\ att[a].live

\* C25: a toggle sets the record to the negation of the isActive value in
\* the row of the client's own versions list; when the store already holds
\* that negation, because another client toggled from the same observed
\* value, the stored value stays: one flip, not two.
C25_ToggleFromObserved ==
    [][\A c \in Clients, i \in 1..MaxAttempts :
          (/\ mounted[c] /\ i <= Len(versions[c])
           /\ Toggle(c, i))
          => LET id       == versions[c][i].id
                 observed == versions[c][i].isActive
             IN  /\ catalog'[id].isActive = ~observed
                 /\ catalog[id].isActive # observed => catalog' = catalog]_vars

C25_Witness ==
    /\ lastOp.kind = "toggle"
    /\ lastOp.again
    /\ lastOp.value = TRUE
    /\ lastOp.outcome = "resolved"
    /\ catalog[lastOp.id].isActive
    /\ \A c \in Clients : versions[c] = Snapshot(catalog)

\* The attempts of a client that have started and not ended.
InFlightOf(c) == { a \in InFlight : att[a].client = c }

\* C27: a client has at most one attempt in flight, and while an attempt of
\* the client is in flight the uploading flag the client sees is true, so
\* that it can start no second one.
C27_OneAttemptPerClient ==
    \A c \in Clients :
        /\ Cardinality(InFlightOf(c)) <= 1
        /\ (mounted[c] /\ InFlightOf(c) # {}) => uploading[c]

(***************************************************************************)
(* App and Login: the login gate.                                           *)
(***************************************************************************)
\* import.meta.env.VITE_FIXED_PASSWORD, set when the application is built.
FIXED_PASSWORD == "pw"

\* What the operators type into the fields of the login form.
Usernames == {"", FIXED_USERNAME, "x"}
Passwords == {"", FIXED_PASSWORD, "x"}

\* The element App renders: the panel if isLoggedIn, else the login form.
Shown(p) == IF ~p.loaded THEN "none" ELSE IF p.isLoggedIn THEN "panel" ELSE "login"

\* The state of Login is created when the form mounts and dropped when the
\* panel replaces it.
FreshLogin(p) == [p EXCEPT !.username = "", !.password = "", !.error = ""]

AppFrame ==
    UNCHANGED <<mode, catalog, blobs, now, mounted, versions, uploading,
                uploadProgress, selectedFile, errors, att, created, lastOp>>

\* The page is opened: App mounts with isLoggedIn = false.
AppMount(c) ==
    /\ ~app[c].loaded
    /\ app' = [app EXCEPT ![c] = FreshLogin([@ EXCEPT !.loaded = TRUE, !.checked = FALSE,
                                                      !.isLoggedIn = FALSE])]
    /\ AppFrame

\* The mount effect of App: if localStorage holds "true", setIsLoggedIn(true).
AppEffect(c) ==
    /\ app[c].loaded
    /\ ~app[c].checked
    /\ app' = [app EXCEPT ![c] =
                 IF @.stored = "true"
                 THEN FreshLogin([@ EXCEPT !.checked = TRUE, !.isLoggedIn = TRUE])
                 ELSE [@ EXCEPT !.checked = TRUE]]
    /\ AppFrame

\* The page is closed or reloaded: the component state is gone, localStorage
\* stays.
AppClose(c) ==
    /\ app[c].loaded
    /\ app' = [app EXCEPT ![c] = FreshLogin([@ EXCEPT !.loaded = FALSE, !.checked = FALSE,
                                                      !.isLoggedIn = FALSE])]
    /\ AppFrame

\* onChange of the two fields of the login form.
setUsername(c, u) ==
    /\ Shown(app[c]) = "login"
    /\ app[c].username # u
    /\ app' = [app EXCEPT ![c].username = u]
    /\ AppFrame

setPassword(c, p) ==
    /\ Shown(app[c]) = "login"
    /\ app[c].password # p
    /\ app' = [app EXCEPT ![c].password = p]
    /\ AppFrame

\* A login that accepts every pair of non-empty fields.
LoginHandleSubmitAny(c) ==
    /\ Shown(app[c]) = "login"
    /\ app' = [app EXCEPT ![c] =
                 IF @.username = "" \/ @.password = ""
                 THEN [@ EXCEPT !.error = "Please enter both username and password."]
                 ELSE FreshLogin([@ EXCEPT !.stored = "true", !.isLoggedIn = TRUE])]
    /\ AppFrame

\* Login.handleSubmit: the fields are compared with the fixed credentials.
LoginHandleSubmit(c) ==
    /\ Shown(app[c]) = "login"
    /\ app' = [app EXCEPT ![c] =
                 IF @.username = "" \/ @.password = ""
                 THEN [@ EXCEPT !.error = "Please enter both username and password."]
                 ELSE IF @.username = FIXED_USERNAME /\ @.password = FIXED_PASSWORD
                 THEN FreshLogin([@ EXCEPT !.stored = "true", !.isLoggedIn = TRUE])
                 ELSE [@ EXCEPT !.error = "Invalid username or password. Please try again."]]
    /\ AppFrame

\* App.handleLogout, called by the panel.
handleLogout(c) ==
    /\ Shown(app[c]) = "panel"
    /\ app' = [app EXCEPT ![c] = [@ EXCEPT !.stored = "null", !.isLoggedIn = FALSE,
                                           !.loggedOut = TRUE]]
    /\ AppFrame

\* Nobody has opened the page yet and no browser holds the item.
InitLogin ==
    /\ mode \in {"binary", "link"}
    /\ catalog = EmptyMap
    /\ blobs = EmptyMap
    /\ now = 1
    /\ mounted = [c \in Clients |-> FALSE]
    /\ versions = [c \in Clients |-> <<>>]
    /\ uploading = [c \in Clients |-> FALSE]
    /\ uploadProgress = [c \in Clients |-> 0]
    /\ selectedFile = [c \in Clients |-> NoFile]
    /\ errors = [c \in Clients |-> NoErrors]
    /\ att = [a \in Attempts |-> Unused]
    /\ created = EmptyMap
    /\ lastOp = NoOp
    /\ app = [c \in Clients |-> PageClosed]

NextLogin ==
    \/ \E c \in Clients : AppMount(c)
    \/ \E c \in Clients : AppEffect(c)
    \/ \E c \in Clients : AppClose(c)
    \/ \E c \in Clients, u \in Usernames : setUsername(c, u)
    \/ \E c \in Clients, p \in Passwords : setPassword(c, p)
    \/ \E c \in Clients : LoginHandleSubmit(c)
    \/ \E c \in Clients : handleLogout(c)

SpecLogin == InitLogin /\ [][NextLogin]_vars

\* The login form is shown with both fields filled in with the configured
\* credentials.
RightCredentials(p) ==
    /\ Shown(p) = "login"
    /\ p.username # "" /\ p.password # ""
    /\ p.username = FIXED_USERNAME /\ p.password = FIXED_PASSWORD

\* C28: the panel is shown only while isLoggedIn is true; isLoggedIn turns
\* true only by a submit of the configured, non-empty credentials or by the
\* mount effect finding the stored item "true"; the item is stored only by
\* such a submit and is removed by a logout, so that a mount after a logout
\* shows the login form until such a submit.
C28_LoginGate ==
    [][\A c \in Clients :
          /\ Shown(app'[c]) = "panel" => app'[c].isLoggedIn
          /\ (~app[c].isLoggedIn /\ app'[c].isLoggedIn)
                => \/ RightCredentials(app[c])
                   \/ app[c].loaded /\ ~app[c].checked /\ app[c].stored = "true"
          /\ (app[c].stored # "true" /\ app'[c].stored = "true") => RightCredentials(app[c])
          /\ (Shown(app[c]) = "panel" /\ Shown(app'[c]) = "login") => app'[c].stored = "null"
          /\ (app[c].stored # "true" /\ app'[c].loaded /\ ~RightCredentials(app[c]))
                => Shown(app'[c]) # "panel"]_vars

C28_Witness ==
    /\ app["c1"].loggedOut /\ Shown(app["c1"]) = "login" /\ app["c1"].checked
    /\ app["c1"].stored = "null"
    /\ app["c1"].error = "Invalid username or password. Please try again."
    /\ app["c2"].loggedOut /\ Shown(app["c2"]) = "panel" /\ ~app["c2"].checked

====
